---- MODULE Spec2Model ----
(***************************************************************************)
(* Client-side session / stream reconciliation of the chat front end:      *)
(* the reactive store (web/app/store.js) and the HTTP/SSE client           *)
(* (web/app/api.js, web/app/api/chat.js), with the backend as environment. *)
(*                                                                         *)
(* JavaScript runs each handler to its next await without interruption.    *)
(* A handler is therefore a chain of steps: the synchronous part of a call *)
(* (which may hand over to a callee through `run`, a step nothing else can *)
(* interleave with) and one step per network response.                     *)
(***************************************************************************)
EXTENDS Integers, Sequences, FiniteSets, TLC

VARIABLES
    models, modelAlias, useRag, useStream, ragCorpusIds,   \* store.js:10-14
    sessions, activeSessionId, messages,                   \* store.js:16-18
    streaming, streamer,                                   \* store.js:19-20
    streams,                                               \* the streams opened
    srvCfg, srvMsgs, srvGone, nextId,                      \* the backend
    net,                                                   \* requests in flight
    run,                                                   \* callee about to run
    done, ensured, ops,                                    \* history
    now, sent,                                             \* Date.now(), sends made
    pane,                                                  \* ChatPane.js:22-26
    token, hash,                                           \* localStorage, location
    calls                                                  \* the calls finished

cfgVars == <<modelAlias, useRag, useStream, ragCorpusIds>>
srvVars == <<srvCfg, srvMsgs, srvGone, nextId>>
strVars == <<streaming, streamer, streams>>
sendVars == <<now, sent>>
authVars == <<token, hash>>
uiVars == <<sendVars, pane, authVars>>
restVars == <<uiVars, calls>>
vars == <<models, cfgVars, sessions, activeSessionId, messages, strVars,
          srvVars, net, run, done, ensured, ops, restVars>>

----------------------------------------------------------------------------
(* Bounds of the model *)

MaxInflight == 2     \* requests in flight at once
MaxOps == 2          \* calls the user interface makes in one run
MaxPick == 2         \* sidebar entries (from the top) the user clicks

(* Program constants *)

MAX_SESSIONS == 100
MAX_MSG_PER_SESSION == 1000
MAX_INPUT_CHARS == 4000

----------------------------------------------------------------------------
(* JavaScript values *)

None == <<>>                      \* undefined / null
Some(v) == <<v>>
OrElse(o, d) == IF o = None THEN d ELSE o[1]          \* o ?? d
NoSession == 0                    \* activeSessionId '' (falsy)
NoAlias == ""                     \* modelAlias '' (falsy)
NoHandle == 0                     \* streamer null
Epoch == 1000000                  \* Date.now() when the page was loaded
NoPane == [sessions |-> <<>>, activeSid |-> NoSession, msgsBySid |-> <<>>]

Aliases == {"m1", "m2"}
Corpora == {{}, {1}}

CfgOf(s) ==
    [model_alias |-> s.model_alias, use_rag |-> s.use_rag,
     rag_corpus_ids |-> s.rag_corpus_ids, stream |-> s.stream]

SessionOf(id, c) ==
    [id |-> id, model_alias |-> c.model_alias, use_rag |-> c.use_rag,
     rag_corpus_ids |-> c.rag_corpus_ids, stream |-> c.stream]

Snapshot ==
    [model_alias |-> modelAlias, use_rag |-> useRag,
     rag_corpus_ids |-> ragCorpusIds, stream |-> useStream]

NoArgs == [modelAlias |-> None, useRag |-> None, ragCorpusIds |-> None, useStream |-> None]
NoCall ==
    [prevActive |-> NoSession, hadMsg |-> FALSE, emptyActive |-> FALSE,
     aliasChanged |-> FALSE, first |-> FALSE, startLen |-> 0, viaPatch |-> FALSE,
     creates |-> 0]
NoBody == [model_alias |-> None, use_rag |-> None, rag_corpus_ids |-> None, stream |-> None]
Idle == [pc |-> "idle", sid |-> NoSession, args |-> NoArgs, call |-> NoCall]
NoDone ==
    [outcome |-> "none", call |-> NoCall, sid |-> NoSession, newId |-> NoSession,
     active |-> NoSession, snap |-> None, activeCfg |-> None, updated |-> None,
     sidCfg |-> None, headId |-> NoSession, nSessions |-> 0, lenBefore |-> 0]

Request(kind, sid, body, call) == [kind |-> kind, sid |-> sid, body |-> body, call |-> call]

RemoveAt(s, i) == SubSeq(s, 1, i - 1) \o SubSeq(s, i + 1, Len(s))

----------------------------------------------------------------------------
(* store.js helpers *)

\* sessions.findIndex(s => s.id === id), 1-based; 0 when absent
FindIndex(list, id) ==
    IF \E i \in 1..Len(list) : list[i].id = id
    THEN CHOOSE i \in 1..Len(list) :
            list[i].id = id /\ \A j \in 1..(i - 1) : list[j].id # id
    ELSE 0

\* sessionById(id): the session as an option
sessionById(list, id) ==
    IF FindIndex(list, id) = 0 THEN None ELSE Some(list[FindIndex(list, id)])

\* this.messages[sid]?.length || 0
MsgCount(sid) == IF sid \in DOMAIN messages THEN Len(messages[sid]) ELSE 0

\* setMessages(sessionId, list): this.messages[sessionId] = list || []
setMessages(msgs, sid, list) ==
    [k \in DOMAIN msgs \cup {sid} |-> IF k = sid THEN list ELSE msgs[k]]

\* delete this.messages[sid]
deleteMessages(msgs, sid) == [k \in DOMAIN msgs \ {sid} |-> msgs[k]]

\* the configuration of the session activeSessionId names, as an option
ActiveCfgIn(list, id) ==
    IF FindIndex(list, id) = 0 THEN None ELSE Some(CfgOf(list[FindIndex(list, id)]))

----------------------------------------------------------------------------
(* The backend *)

InitCfg(i) ==
    [model_alias |-> IF i % 2 = 1 THEN "m1" ELSE "m2", use_rag |-> (i % 2 = 0),
     rag_corpus_ids |-> IF i % 2 = 0 THEN {1} ELSE {}, stream |-> TRUE]

OldMsg(i) == [id |-> i, role |-> "user", content_text |-> <<"q">>]

\* the backend is authoritative for normalisation of a configuration
Normalize(c, n) == IF n THEN [c EXCEPT !.use_rag = FALSE] ELSE c

\* PATCH: the fields the body carries override the stored configuration
Merge(c, b) ==
    [model_alias |-> OrElse(b.model_alias, c.model_alias),
     use_rag |-> OrElse(b.use_rag, c.use_rag),
     rag_corpus_ids |-> OrElse(b.rag_corpus_ids, c.rag_corpus_ids),
     stream |-> OrElse(b.stream, c.stream)]

SrvMsgsOf(id) == IF id \in DOMAIN srvMsgs THEN srvMsgs[id] ELSE <<>>

\* the backend stores the request message and the answer of one exchange, under
\* identifiers of its own
Persist(sid, text, answer) ==
    LET old == SrvMsgsOf(sid)
        req == [id |-> MAX_SESSIONS + Len(old) + 1, role |-> "user", content_text |-> text]
        ans == [id |-> MAX_SESSIONS + Len(old) + 2, role |-> "assistant",
                content_text |-> answer]
    IN [k \in DOMAIN srvMsgs \cup {sid} |->
           IF k = sid THEN old \o <<req, ans>> ELSE srvMsgs[k]]

----------------------------------------------------------------------------
(* Initial states: boot() has loaded the models and the session list;      *)
(* loadSessions has started switchSession(sessions[0].id) (store.js:56-58) *)

InitCounts == {0, MAX_SESSIONS - 1, MAX_SESSIONS}

\* the backend's identifiers are opaque; the ones it hands out later start here
FirstNewId == MAX_SESSIONS + 1

Init ==
    \E n \in InitCounts, ms \in {<<>>, <<"m1", "m2">>}, firstUsed \in BOOLEAN :
        /\ n # 0 => ms # <<>>       \* no model list: only the fresh account
        /\ n = 0 => ~firstUsed
        /\ models = ms
        /\ modelAlias = IF ms = <<>> THEN NoAlias ELSE ms[1]
        /\ useRag = FALSE
        /\ useStream = TRUE
        /\ ragCorpusIds = {}
        /\ sessions = [i \in 1..n |-> SessionOf(i, InitCfg(i))]
        /\ activeSessionId = IF n = 0 THEN NoSession ELSE 1
        /\ messages = <<>>
        /\ streaming = FALSE
        /\ streamer = NoHandle
        /\ streams = <<>>
        /\ srvCfg = [i \in 1..n |-> InitCfg(i)]
        /\ srvMsgs = [i \in {j \in 1..n : j = 2 \/ (j = 1 /\ firstUsed)} |-> <<OldMsg(i)>>]
        /\ srvGone = {}
        /\ nextId = FirstNewId
        /\ net = IF n = 0 THEN <<>> ELSE <<Request("listMessages", 1, NoBody, NoCall)>>
        /\ run = Idle
        /\ done = NoDone
        /\ ensured = FALSE
        /\ ops = 0
        /\ now = Epoch
        /\ sent = <<>>
        /\ pane = NoPane
        /\ token = "t1"
        /\ hash = "#/chat"
        /\ calls = <<>>

----------------------------------------------------------------------------
(* ensureActiveSession and its callees (store.js:69-135) *)

ModelAliases == {models[i] : i \in DOMAIN models}

FullArgs(m, r, c, s) ==
    [modelAlias |-> Some(m), useRag |-> Some(r), ragCorpusIds |-> Some(c), useStream |-> Some(s)]

\* the arguments the callers of ensureActiveSession pass
CallerArgs ==
    (IF activeSessionId = NoSession THEN {NoArgs} ELSE {})              \* boot
    \cup {FullArgs(m, useRag, ragCorpusIds, useStream) : m \in ModelAliases} \* onModelChange
    \cup {FullArgs(modelAlias, ~useRag, ragCorpusIds, useStream)}        \* toggleRag
    \cup {FullArgs(modelAlias, useRag, ragCorpusIds, ~useStream)}        \* toggleStream
    \cup {FullArgs(modelAlias, useRag, ragCorpusIds, useStream)}         \* newChat

\* what a finished ensureActiveSession call leaves behind
Finished(outcome, call, sid, newId, updated, act, snap, list) ==
    [outcome |-> outcome, call |-> call, sid |-> sid, newId |-> newId,
     active |-> act, snap |-> Some(snap), activeCfg |-> ActiveCfgIn(list, act),
     updated |-> updated, sidCfg |-> ActiveCfgIn(list, sid),
     headId |-> IF Len(list) > 0 THEN list[1].id ELSE NoSession,
     nSessions |-> Len(list), lenBefore |-> Len(sessions)]

\* a variant of HasMsg that overlooks a single message
HasMsg_MoreThanOne(sid) == MsgCount(sid) > 1

\* store.js:80: (this.messages[sid]?.length || 0) > 0
HasMsg(sid) == MsgCount(sid) > 0

\* store.js:69-86, up to the call of the callee
EnsureActiveSession(a) ==
    /\ run = Idle
    /\ Len(net) < MaxInflight
    /\ ops < MaxOps
    /\ ops' = ops + 1
    /\ LET act == IF Len(sessions) # 0 /\ activeSessionId = NoSession
                  THEN sessions[1].id ELSE activeSessionId
           hasMsg == HasMsg(act)
           call == [prevActive |-> activeSessionId,
                    hadMsg |-> activeSessionId \in DOMAIN messages
                               /\ messages[activeSessionId] # <<>>,
                    emptyActive |-> /\ Len(sessions) # 0
                                    /\ activeSessionId # NoSession
                                    /\ MsgCount(activeSessionId) = 0,
                    aliasChanged |-> a.modelAlias # None /\ a.modelAlias # Some(modelAlias),
                    first |-> ~ensured, startLen |-> Len(sessions), viaPatch |-> FALSE,
                    creates |-> 0]
       IN /\ activeSessionId' = act
          /\ run' = IF Len(sessions) = 0
                    THEN [pc |-> "create", sid |-> NoSession, args |-> a, call |-> call]
                    ELSE IF ~hasMsg
                         THEN [pc |-> "patch", sid |-> act, args |-> a, call |-> call]
                         ELSE [pc |-> "create", sid |-> NoSession, args |-> a, call |-> call]
    /\ ensured' = TRUE
    /\ UNCHANGED <<models, restVars, cfgVars, sessions, messages, strVars, srvVars, net>>
    /\ done' = NoDone

\* modelAlias || this.modelAlias || (this.models[0]?.alias || '')
PickAlias(a) ==
    IF OrElse(a.modelAlias, NoAlias) # NoAlias THEN a.modelAlias[1]
    ELSE IF modelAlias # NoAlias THEN modelAlias
    ELSE IF Len(models) > 0 THEN models[1] ELSE NoAlias

\* store.js:94-99
CreateBody(a) ==
    [model_alias |-> Some(PickAlias(a)),
     use_rag |-> Some(OrElse(a.useRag, FALSE)),
     rag_corpus_ids |-> Some(OrElse(a.ragCorpusIds, {})),
     stream |-> Some(OrElse(a.useStream, useStream))]

\* a variant of QuotaReached that lets one session too many through
QuotaReached_OffByOne == Len(sessions) > MAX_SESSIONS

\* store.js:89: the Quota Guard of session creation
QuotaReached == Len(sessions) >= MAX_SESSIONS

\* store.js:88-100, _createAndActivate up to its await
CreateAndActivate ==
    /\ run.pc = "create"
    /\ IF QuotaReached
       THEN /\ done' = Finished("quota", run.call, NoSession, NoSession, None,
                                activeSessionId, Snapshot, sessions)
            /\ net' = net
       ELSE IF PickAlias(run.args) = NoAlias
       THEN /\ done' = Finished("noalias", run.call, NoSession, NoSession, None,
                                activeSessionId, Snapshot, sessions)
            /\ net' = net
       ELSE /\ net' = Append(net, Request("create", NoSession, CreateBody(run.args),
                                       [run.call EXCEPT !.creates = @ + 1]))
            /\ done' = NoDone
    /\ run' = Idle
    /\ UNCHANGED <<models, restVars, cfgVars, sessions, activeSessionId, messages, strVars,
                   srvVars, ensured, ops>>

\* a variant of Unshift that appends at the end
Unshift_Push(list, s) == list \o <<s>>

\* store.js:101: this.sessions.unshift(s)
Unshift(list, s) == <<s>> \o list

\* store.js:100-108, createSession resolved with the session the backend made
CreateResolve(i, n) ==
    /\ run = Idle
    /\ i \in 1..Len(net)
    /\ net[i].kind = "create"
    /\ LET c == Normalize(Merge(InitCfg(1), net[i].body), n)
           s == SessionOf(nextId, c)
       IN /\ srvCfg' = [k \in DOMAIN srvCfg \cup {nextId} |->
                            IF k = nextId THEN c ELSE srvCfg[k]]
          /\ nextId' = nextId + 1
          /\ sessions' = Unshift(sessions, s)
          /\ activeSessionId' = s.id
          /\ modelAlias' = s.model_alias
          /\ useRag' = s.use_rag
          /\ ragCorpusIds' = s.rag_corpus_ids
          /\ useStream' = s.stream
          /\ messages' = setMessages(messages, s.id, <<>>)
          /\ net' = RemoveAt(net, i)
          /\ done' = Finished("created", net[i].call, NoSession, s.id, Some(c),
                              activeSessionId', Snapshot', sessions')
    /\ UNCHANGED <<models, restVars, strVars, srvMsgs, srvGone, run, ensured, ops>>

\* createSession rejected: nothing catches it, the caller sees the error
CreateReject(i) ==
    /\ run = Idle
    /\ i \in 1..Len(net)
    /\ net[i].kind = "create"
    /\ net' = RemoveAt(net, i)
    /\ done' = Finished("error", net[i].call, NoSession, NoSession, None,
                        activeSessionId, Snapshot, sessions)
    /\ UNCHANGED <<models, restVars, cfgVars, sessions, activeSessionId, messages, strVars,
                   srvVars, run, ensured, ops>>

\* store.js:113-117
PatchBody(a) ==
    [model_alias |-> a.modelAlias, use_rag |-> a.useRag,
     rag_corpus_ids |-> a.ragCorpusIds, stream |-> a.useStream]

\* store.js:111-118, _tryPatchConfig up to its await
TryPatchConfig ==
    /\ run.pc = "patch"
    /\ net' = Append(net, Request("patch", run.sid, PatchBody(run.args), run.call))
    /\ run' = Idle
    /\ UNCHANGED <<models, restVars, cfgVars, sessions, activeSessionId, messages, strVars,
                   srvVars, ensured, ops>>
    /\ done' = NoDone

\* a variant of WriteBack that keeps the stale session
WriteBack_Skip(list, idx, updated) == list

\* store.js:120-121: if (idx >= 0) this.sessions[idx] = updated
WriteBack(list, idx, updated) ==
    IF idx > 0 THEN [list EXCEPT ![idx] = updated] ELSE list

\* store.js:118-125, patchSession resolved with the backend's canonical session
PatchResolve(i, n) ==
    /\ run = Idle
    /\ i \in 1..Len(net)
    /\ net[i].kind = "patch"
    /\ net[i].sid \notin srvGone
    /\ LET sid == net[i].sid
           updated == Normalize(Merge(srvCfg[sid], net[i].body), n)
           idx == FindIndex(sessions, sid)
       IN /\ srvCfg' = [srvCfg EXCEPT ![sid] = updated]
          /\ sessions' = WriteBack(sessions, idx, SessionOf(sid, updated))
          /\ modelAlias' = updated.model_alias
          /\ useRag' = updated.use_rag
          /\ ragCorpusIds' = updated.rag_corpus_ids
          /\ useStream' = updated.stream
          /\ net' = RemoveAt(net, i)
          /\ done' = Finished("patched", net[i].call, sid, NoSession, Some(updated),
                              activeSessionId, Snapshot', sessions')
    /\ UNCHANGED <<models, restVars, activeSessionId, messages, strVars, srvMsgs, srvGone,
                   nextId, run, ensured, ops>>

\* store.js:126-134, patchSession rejected: the catch block calls _createAndActivate
PatchReject(i) ==
    /\ run = Idle
    /\ i \in 1..Len(net)
    /\ net[i].kind = "patch"
    /\ LET b == net[i].body
       IN run' = [pc |-> "create", sid |-> NoSession,
                  args |-> FullArgs(OrElse(b.model_alias, modelAlias),
                                    OrElse(b.use_rag, useRag),
                                    OrElse(b.rag_corpus_ids, ragCorpusIds),
                                    OrElse(b.stream, useStream)),
                  call |-> [net[i].call EXCEPT !.viaPatch = TRUE]]
    /\ net' = RemoveAt(net, i)
    /\ UNCHANGED <<models, restVars, cfgVars, sessions, activeSessionId, messages, strVars,
                   srvVars, ensured, ops>>
    /\ done' = NoDone

----------------------------------------------------------------------------
(* switchSession and deleteSession (store.js:137-165) *)

PickIds == {sessions[i].id : i \in 1..(IF Len(sessions) < MaxPick THEN Len(sessions) ELSE MaxPick)}

\* store.js:138-142, switchSession up to its await
SwitchStart(act, id) ==
    IF id = act
    THEN [active |-> act, reqs |-> <<>>]
    ELSE [active |-> id, reqs |-> <<Request("listMessages", id, NoBody, NoCall)>>]

SwitchSession(id) ==
    /\ run = Idle
    /\ Len(net) < MaxInflight
    /\ ops < MaxOps
    /\ ops' = ops + 1
    /\ activeSessionId' = SwitchStart(activeSessionId, id).active
    /\ net' = net \o SwitchStart(activeSessionId, id).reqs
    /\ UNCHANGED <<models, restVars, cfgVars, sessions, messages, strVars, srvVars, run,
                   ensured>>
    /\ done' = NoDone

\* api.js:71-75, listMessages: res.data?.items || []
listMessages(data) == IF data.shape = "items" THEN data.list ELSE <<>>

\* store.js:147-154, the session's configuration copied into the snapshot
SyncConfig(sid) ==
    LET s == sessionById(sessions, sid)
    IN IF s # None
       THEN /\ modelAlias' = s[1].model_alias
            /\ useRag' = s[1].use_rag
            /\ ragCorpusIds' = s[1].rag_corpus_ids
            /\ useStream' = s[1].stream
       ELSE UNCHANGED cfgVars

\* store.js:142-154, the message fetch resolved
SwitchResolve(i, shape) ==
    /\ run = Idle
    /\ i \in 1..Len(net)
    /\ net[i].kind = "listMessages"
    /\ net[i].sid \notin srvGone
    /\ LET sid == net[i].sid
           data == [shape |-> shape, list |-> SrvMsgsOf(sid)]
       IN /\ messages' = setMessages(messages, sid, listMessages(data))
          /\ SyncConfig(sid)
    /\ net' = RemoveAt(net, i)
    /\ UNCHANGED <<models, uiVars, sessions, activeSessionId, strVars, srvVars, run,
                   ensured, ops>>
    /\ done' = NoDone

\* a variant of Kept that forgets the cached list
Kept_Emptied(cache, sid) == <<>>

\* store.js:145 and ChatPane.js:76: cache[sid] || []
Kept(cache, sid) == IF sid \in DOMAIN cache THEN cache[sid] ELSE <<>>

\* store.js:144-154, the message fetch failed
SwitchReject(i) ==
    /\ run = Idle
    /\ i \in 1..Len(net)
    /\ net[i].kind = "listMessages"
    /\ LET sid == net[i].sid
       IN /\ messages' = setMessages(messages, sid, Kept(messages, sid))
          /\ SyncConfig(sid)
    /\ net' = RemoveAt(net, i)
    /\ UNCHANGED <<models, uiVars, sessions, activeSessionId, strVars, srvVars, run,
                   ensured, ops>>
    /\ done' = NoDone

\* store.js:157-158, deleteSession up to its await
DeleteSession(id) ==
    /\ run = Idle
    /\ Len(net) < MaxInflight
    /\ ops < MaxOps
    /\ ops' = ops + 1
    /\ net' = Append(net, Request("delete", id, NoBody, NoCall))
    /\ UNCHANGED <<models, restVars, cfgVars, sessions, activeSessionId, messages, strVars,
                   srvVars, run, ensured>>
    /\ done' = NoDone

\* this.sessions.filter(s => s.id !== sessionId)
FilterOut(list, sid) == SelectSeq(list, LAMBDA s : s.id # sid)

\* store.js:159-164, after the remote call, whatever its outcome
DeleteContinue(i) ==
    LET sid == net[i].sid
        rest == FilterOut(sessions, sid)
        head == IF Len(rest) > 0 THEN rest[1].id ELSE NoSession
        sw == IF activeSessionId = sid /\ head # NoSession
              THEN SwitchStart(head, head)
              ELSE [active |-> IF activeSessionId = sid THEN head ELSE activeSessionId,
                    reqs |-> <<>>]
    IN /\ sessions' = rest
       /\ messages' = deleteMessages(messages, sid)
       /\ activeSessionId' = sw.active
       /\ net' = RemoveAt(net, i) \o sw.reqs

DeleteResolve(i) ==
    /\ run = Idle
    /\ i \in 1..Len(net)
    /\ net[i].kind = "delete"
    /\ srvGone' = srvGone \cup {net[i].sid}
    /\ DeleteContinue(i)
    /\ UNCHANGED <<models, uiVars, cfgVars, strVars, srvCfg, srvMsgs, nextId, run, ensured, ops>>
    /\ done' = NoDone

DeleteReject(i) ==
    /\ run = Idle
    /\ i \in 1..Len(net)
    /\ net[i].kind = "delete"
    /\ DeleteContinue(i)
    /\ UNCHANGED <<models, uiVars, cfgVars, strVars, srvVars, run, ensured, ops>>
    /\ done' = NoDone

----------------------------------------------------------------------------
(* The store driven by its callers and the backend's responses *)

Slots == 1..(MaxInflight + 1)

Next ==
    \/ \E a \in CallerArgs : EnsureActiveSession(a)
    \/ CreateAndActivate
    \/ \E i \in Slots, n \in BOOLEAN : CreateResolve(i, n)
    \/ \E i \in Slots : CreateReject(i)
    \/ TryPatchConfig
    \/ \E i \in Slots, n \in BOOLEAN : PatchResolve(i, n)
    \/ \E i \in Slots : PatchReject(i)
    \/ \E id \in PickIds : SwitchSession(id)
    \/ \E i \in Slots, shape \in {"items", "array"} :
          SwitchResolve(i, shape) /\ UNCHANGED calls
    \/ \E i \in Slots : SwitchReject(i) /\ UNCHANGED calls
    \/ \E id \in PickIds : DeleteSession(id)
    \/ \E i \in Slots : DeleteResolve(i) /\ UNCHANGED calls
    \/ \E i \in Slots : DeleteReject(i) /\ UNCHANGED calls

Spec == Init /\ [][Next]_vars

----------------------------------------------------------------------------
(* Text of an event stream.  A string is the sequence of its characters, a  *)
(* response body the sequence of its UTF-8 bytes.                          *)

MaxFrames == 2       \* frames in one response body (a trailing partial frame apart)

NL == "\n"
WideChar == "U+00E9"              \* one character that UTF-8 encodes in two bytes
LeadByte == "0xC3"
TrailByte == "0xA9"

DataPrefix == <<"d", "a", "t", "a", ":", " ">>           \* 'data: '
DoneText == <<"[", "D", "O", "N", "E", "]">>             \* '[DONE]'
Separator == <<NL, NL>>                                  \* '\n\n'

\* what the backend sends: data frames, the sentinel, a comment frame
FrameKinds == {"a", "w", "done", "note"}
EsFrameKinds == {"a", "done", "end"}

HasPayload(k) == k \in {"a", "w", "done"}

Payload(k) ==
    CASE k = "a" -> <<"a">>
      [] k = "w" -> <<WideChar>>
      [] k = "done" -> DoneText
      [] OTHER -> <<>>

FrameText(k) ==
    IF HasPayload(k) THEN DataPrefix \o Payload(k) \o Separator
    ELSE <<":", "k">> \o Separator

\* a frame the connection closed in the middle of: 'data: a' and no terminator
PartialText == DataPrefix \o <<"a">>

RECURSIVE Concat(_)
Concat(ss) == IF ss = <<>> THEN <<>> ELSE Head(ss) \o Concat(Tail(ss))

RECURSIVE Encode(_)
Encode(text) ==
    IF text = <<>> THEN <<>>
    ELSE (IF Head(text) = WideChar THEN <<LeadByte, TrailByte>> ELSE <<Head(text)>>)
         \o Encode(Tail(text))

BodyOf(frames, partial) ==
    Concat([i \in 1..Len(frames) |-> Encode(FrameText(frames[i]))]
           \o (IF partial THEN <<Encode(PartialText)>> ELSE <<>>))

\* the texts the backend streams as its answer: the payloads of the frames it
\* sends before the sentinel
RECURSIVE Answer(_)
Answer(frames) ==
    IF frames = <<>> \/ Head(frames) = "done" THEN <<>>
    ELSE (IF HasPayload(Head(frames)) THEN <<Payload(Head(frames))>> ELSE <<>>)
         \o Answer(Tail(frames))

FrameSeqs(kinds) == UNION {[1..n -> kinds] : n \in 0..MaxFrames}

----------------------------------------------------------------------------
(* api.streamMessage (api.js:86-123): the reader loop *)

\* a decoder that forgets the incomplete character between two calls
DecodeFrom_NoCarry(pending, bytes) ==
    LET held == bytes # <<>> /\ bytes[Len(bytes)] = LeadByte
        whole == IF held THEN SubSeq(bytes, 1, Len(bytes) - 1) ELSE bytes
        Starts(b) == b # TrailByte
        chars == SelectSeq(whole, Starts)
    IN [text |-> [i \in 1..Len(chars) |->
                     IF chars[i] = LeadByte THEN WideChar ELSE chars[i]],
        pending |-> <<>>]

\* dec.decode(value, { stream: true }): bytes to text, an incomplete
\* character held back for the next call
DecodeFrom(pending, bytes) ==
    LET all == pending \o bytes
        held == all # <<>> /\ all[Len(all)] = LeadByte
        whole == IF held THEN SubSeq(all, 1, Len(all) - 1) ELSE all
        Starts(b) == b # TrailByte
        chars == SelectSeq(whole, Starts)
    IN [text |-> [i \in 1..Len(chars) |->
                     IF chars[i] = LeadByte THEN WideChar ELSE chars[i]],
        pending |-> IF held THEN <<LeadByte>> ELSE <<>>]

\* where in a frame a read ended: inside a character, between the two
\* newlines of the terminator, inside the prefix, inside the payload
CutOf(buf, pending, before) ==
    IF pending # <<>> THEN "char"
    ELSE IF buf = <<>> THEN before
    ELSE IF buf[Len(buf)] = NL THEN "terminator"
    ELSE IF Len(buf) < Len(DataPrefix) THEN "prefix"
    ELSE "payload"

\* s.split(sep) for a separator of one or two characters
RECURSIVE Split(_, _)
Split(s, sep) ==
    LET n == Len(sep)
        hits == {i \in 1..(Len(s) - n + 1) : SubSeq(s, i, i + n - 1) = sep}
    IN IF hits = {} THEN <<s>>
       ELSE LET i == CHOOSE j \in hits : \A k \in hits : j <= k
            IN <<SubSeq(s, 1, i - 1)>> \o Split(SubSeq(s, i + n, Len(s)), sep)

\* l.startsWith(pre)
StartsWith(l, pre) == Len(l) >= Len(pre) /\ SubSeq(l, 1, Len(pre)) = pre

\* api.js:111-114: the first line that starts with 'data: ', cut after the prefix
\* (None when the frame has no such line)
DataOf(part) ==
    LET lines == Split(part, <<NL>>)
        hits == {i \in 1..Len(lines) : StartsWith(lines[i], DataPrefix)}
    IN IF hits = {} THEN None
       ELSE LET i == CHOOSE j \in hits : \A k \in hits : j <= k
            IN Some(SubSeq(lines[i], Len(DataPrefix) + 1, Len(lines[i])))

\* a reader that takes no payload for the sentinel
IsSentinel_Never(data) == FALSE

\* api.js:115: data === '[DONE]'
IsSentinel(data) == data = DoneText

Tok(v) == [k |-> "tok", v |-> v]
End == [k |-> "end", v |-> <<>>]
Err == [k |-> "err", v |-> <<>>]

\* api.js:109-117: the callbacks one read's complete frames give, in order;
\* the loop returns at the sentinel
RECURSIVE FrameCallbacks(_)
FrameCallbacks(parts) ==
    IF parts = <<>> THEN <<>>
    ELSE LET d == DataOf(Head(parts))
         IN IF d = None THEN FrameCallbacks(Tail(parts))
            ELSE IF IsSentinel(d[1]) THEN <<End>>
            ELSE <<Tok(d[1])>> \o FrameCallbacks(Tail(parts))

\* a reader that reads the body whatever the status
ResOk_Always(status) == TRUE

\* api.js:99: res.ok
ResOk(status) == status >= 200 /\ status <= 299

Statuses == {200, 500}
NoStatus == 0        \* no response yet

----------------------------------------------------------------------------
(* The callbacks store.send hands to the reader (store.js:205-213).  A      *)
(* stream opened through chat.js has its caller's callbacks: they are only  *)
(* recorded.                                                                *)

\* store.js:208-210: the assistant entry patched by id with the text so far
PatchById(list, id, acc) ==
    [i \in 1..Len(list) |->
        IF i = FindIndex(list, id) THEN [list[i] EXCEPT !.content_text = acc] ELSE list[i]]

\* one callback applied to [st: the stream, msgs, streaming, streamer]
Invoke(w, ev) ==
    LET st == [w.st EXCEPT !.cb = Append(@, ev),
                           !.acc = IF ev.k = "tok" THEN @ \o ev.v ELSE @]
    IN IF w.st.kind # "api" THEN [w EXCEPT !.st = st]
       ELSE IF ev.k = "tok"
       THEN [w EXCEPT !.st = st,
                      !.msgs = IF st.sid \in DOMAIN w.msgs
                               THEN [w.msgs EXCEPT ![st.sid] =
                                        PatchById(@, st.aiMsgId, st.acc)]
                               ELSE w.msgs]
       ELSE [w EXCEPT !.st = st, !.streaming = FALSE, !.streamer = NoHandle]

\* store.js:208-209: list.findIndex on a session whose list is gone throws
Throws(w, ev) == w.st.kind = "api" /\ ev.k = "tok" /\ w.st.sid \notin DOMAIN w.msgs

\* the callbacks of one read in order; one that throws ends the reader loop in
\* the catch of api.js:120, which calls onError
RECURSIVE InvokeAll(_, _)
InvokeAll(w, evs) ==
    IF evs = <<>> THEN w
    ELSE IF Throws(w, Head(evs))
         THEN Invoke([Invoke(w, Head(evs)) EXCEPT !.st.phase = "closed",
                                                  !.st.over = "threw"], Err)
         ELSE InvokeAll(Invoke(w, Head(evs)), Tail(evs))

World(h) == [st |-> streams[h], msgs |-> messages, streaming |-> streaming, streamer |-> streamer]

\* the stream h and the store after the step that left w
Commit(h, w) ==
    /\ streams' = [streams EXCEPT ![h] = w.st]
    /\ messages' = w.msgs
    /\ streaming' = w.streaming
    /\ streamer' = w.streamer

fetchFrame == <<models, restVars, cfgVars, sessions, activeSessionId, srvCfg, srvGone,
                nextId, net, run, done, ensured, ops>>
readerFrame == <<fetchFrame, srvMsgs>>

Handles == 1..Len(streams)

Active(h) == streams[h].phase \in {"fetch", "read", "open"}

\* api.js:98-99, the response arrived; a status that is not ok throws
FetchResolve(h, status, frames, partial) ==
    /\ streams[h].kind = "api"
    /\ streams[h].phase = "fetch"
    /\ ~streams[h].aborted
    /\ ResOk(status) => streams[h].sid \notin srvGone
    /\ IF ResOk(status)
       THEN /\ Commit(h, [World(h) EXCEPT !.st.phase = "read",
                                          !.st.status = status,
                                          !.st.frames = frames,
                                          !.st.partial = partial,
                                          !.st.body = BodyOf(frames, partial)])
            /\ srvMsgs' = Persist(streams[h].sid, streams[h].content,
                                  Concat(Answer(frames)))
       ELSE /\ Commit(h, Invoke([World(h) EXCEPT !.st.phase = "closed",
                                                 !.st.status = status,
                                                 !.st.over = "failed"], Err))
            /\ srvMsgs' = srvMsgs
    /\ UNCHANGED fetchFrame

\* api.js:94-120, fetch rejected (no connection): the catch calls onError
FetchReject(h) ==
    /\ streams[h].kind = "api"
    /\ streams[h].phase = "fetch"
    /\ ~streams[h].aborted
    /\ Commit(h, Invoke([World(h) EXCEPT !.st.phase = "closed",
                                         !.st.over = "failed"], Err))
    /\ UNCHANGED readerFrame

\* api.js:104-117, one read that returned the next n bytes of the body
ReadChunk(h, n) ==
    /\ streams[h].kind = "api"
    /\ streams[h].phase = "read"
    /\ ~streams[h].aborted
    /\ n \in 1..Len(streams[h].body)
    /\ LET st == streams[h]
           dec == DecodeFrom(st.pending, SubSeq(st.body, 1, n))
           parts == Split(st.buf \o dec.text, Separator)
           evs == FrameCallbacks(SubSeq(parts, 1, Len(parts) - 1))
           ended == evs # <<>> /\ evs[Len(evs)] = End
       IN Commit(h, InvokeAll(
              [World(h) EXCEPT !.st.body = SubSeq(st.body, n + 1, Len(st.body)),
                               !.st.pending = dec.pending,
                               !.st.buf = parts[Len(parts)],
                               !.st.cut = CutOf(parts[Len(parts)], dec.pending, st.cut),
                               !.st.phase = IF ended THEN "closed" ELSE "read",
                               !.st.over = IF ended THEN "sentinel" ELSE st.over],
              evs))
    /\ UNCHANGED readerFrame

\* api.js:104-105 and 119, the body ended: done, break, onEnd
ReadDone(h) ==
    /\ streams[h].kind = "api"
    /\ streams[h].phase = "read"
    /\ ~streams[h].aborted
    /\ streams[h].body = <<>>
    /\ Commit(h, Invoke([World(h) EXCEPT !.st.phase = "closed",
                                         !.st.over = "close"], End))
    /\ UNCHANGED readerFrame

\* api.js:104 and 120, a read rejected (the connection broke): onError
ReadReject(h) ==
    /\ streams[h].kind = "api"
    /\ streams[h].phase = "read"
    /\ ~streams[h].aborted
    /\ Commit(h, Invoke([World(h) EXCEPT !.st.phase = "closed",
                                         !.st.over = "failed"], Err))
    /\ UNCHANGED readerFrame

\* api.js:122, abort(): ctrl.abort(), which does nothing the second time
Abort(st) ==
    IF st.aborted THEN st
    ELSE [st EXCEPT !.aborted = TRUE, !.cbAtAbort = Len(st.cb)]

\* api.js:97 and 120, the aborted fetch or read rejects with an AbortError,
\* which the catch hands to onError like any other error
AbortReject(h) ==
    /\ streams[h].kind = "api"
    /\ streams[h].phase \in {"fetch", "read"}
    /\ streams[h].aborted
    /\ Commit(h, Invoke([World(h) EXCEPT !.st.phase = "closed",
                                         !.st.over = "failed"], Err))
    /\ UNCHANGED readerFrame

\* store.js:217-220
StopStream ==
    /\ streams' = IF streamer # NoHandle
                  THEN [streams EXCEPT ![streamer] = Abort(@)]
                  ELSE streams
    /\ streaming' = FALSE
    /\ streamer' = NoHandle
    /\ UNCHANGED <<messages, readerFrame>>

\* the handle's abort() called once more by whoever still holds the handle
AbortAgain(h) ==
    /\ streams[h].kind = "api"
    /\ streams[h].aborted
    /\ streams' = [streams EXCEPT ![h] = Abort(@)]
    /\ UNCHANGED <<messages, streaming, streamer, readerFrame>>

----------------------------------------------------------------------------
(* stream of api/chat.js (chat.js:42-52): an EventSource, which parses the  *)
(* frames itself and dispatches one event per frame                         *)

\* chat.js:48-50, the next frame of the response dispatched as an event
EsEvent(h) ==
    /\ streams[h].kind = "es"
    /\ streams[h].phase = "open"
    /\ streams[h].frames # <<>>
    /\ LET st == streams[h]
           f == Head(st.frames)
           w == [World(h) EXCEPT !.st.frames = Tail(st.frames),
                                 !.st.over = IF f = "done" /\ st.over = "no"
                                             THEN "sentinel" ELSE st.over]
       IN IF f = "end"
          THEN Commit(h, Invoke([w EXCEPT !.st.phase = "closed"], End))
          ELSE Commit(h, Invoke(w, Tok(Payload(f))))
    /\ UNCHANGED readerFrame

\* chat.js:50, the backend closed the connection after its last frame:
\* the EventSource reports it as an error event
EsClose(h) ==
    /\ streams[h].kind = "es"
    /\ streams[h].phase = "open"
    /\ streams[h].frames = <<>>
    /\ Commit(h, Invoke([World(h) EXCEPT !.st.phase = "closed",
                                         !.st.over = IF @ = "no" THEN "close" ELSE @],
                        Err))
    /\ UNCHANGED readerFrame

\* chat.js:50, the connection failed (status not ok, connection lost)
EsFail(h) ==
    /\ streams[h].kind = "es"
    /\ streams[h].phase = "open"
    /\ Commit(h, Invoke([World(h) EXCEPT !.st.phase = "closed",
                                         !.st.over = "failed"], Err))
    /\ UNCHANGED readerFrame

\* chat.js:51, the returned function: es.close()
EsCancel(h) ==
    /\ streams[h].kind = "es"
    /\ streams' = [streams EXCEPT ![h] = [Abort(@) EXCEPT !.phase = "closed"]]
    /\ UNCHANGED <<messages, streaming, streamer, readerFrame>>

----------------------------------------------------------------------------
(* One stream read to its end.  It starts where store.send (store.js:174-   *)
(* 214, stream mode) has just called api.streamMessage on the only session, *)
(* or where a caller has just called stream() of chat.js on given frames.   *)

NewStream(kind, sid, aiMsgId, content, frames) ==
    [kind |-> kind, sid |-> sid, aiMsgId |-> aiMsgId, content |-> content, acc |-> <<>>,
     phase |-> IF kind = "api" THEN "fetch" ELSE "open", status |-> NoStatus,
     frames |-> frames, partial |-> FALSE, body |-> <<>>, pending |-> <<>>,
     buf |-> <<>>, cut |-> "none", aborted |-> FALSE, cb |-> <<>>, cbAtAbort |-> 0, over |-> "no"]

UserMsg(id, text) == [id |-> id, role |-> "user", content_text |-> text]
AiMsg(id) == [id |-> id, role |-> "assistant", content_text |-> <<>>]

InitReader ==
    \E kind \in {"api", "es"}, frames \in FrameSeqs(EsFrameKinds) :
        /\ kind = "api" => frames = <<>>
        /\ models = <<"m1", "m2">>
        /\ modelAlias = "m1"
        /\ useRag = FALSE
        /\ useStream = TRUE
        /\ ragCorpusIds = {}
        /\ sessions = <<SessionOf(1, InitCfg(1))>>
        /\ activeSessionId = 1
        /\ messages = IF kind = "api"
                      THEN [s \in {1} |-> <<UserMsg(1, <<"h", "i">>), AiMsg(2)>>]
                      ELSE [s \in {1} |-> <<>>]
        /\ streaming = (kind = "api")
        /\ streamer = IF kind = "api" THEN 1 ELSE NoHandle
        /\ streams = <<NewStream(kind, 1, 2, <<"h", "i">>, frames)>>
        /\ srvCfg = [i \in {1} |-> InitCfg(1)]
        /\ srvMsgs = <<>>
        /\ srvGone = {}
        /\ nextId = FirstNewId
        /\ net = <<>>
        /\ run = Idle
        /\ done = NoDone
        /\ ensured = FALSE
        /\ ops = 0
        /\ now = Epoch
        /\ sent = <<>>
        /\ pane = NoPane
        /\ token = "t1"
        /\ hash = "#/chat"
        /\ calls = <<>>

NextReader ==
    \/ \E h \in Handles, s \in Statuses, fs \in FrameSeqs(FrameKinds), p \in BOOLEAN :
          FetchResolve(h, s, fs, p)
    \/ \E h \in Handles : FetchReject(h)
    \/ \E h \in Handles : \E n \in 1..Len(streams[h].body) : ReadChunk(h, n)
    \/ \E h \in Handles : ReadDone(h)
    \/ \E h \in Handles : ReadReject(h)
    \/ \E h \in Handles : AbortReject(h)
    \/ StopStream
    \/ \E h \in Handles : AbortAgain(h)
    \/ \E h \in Handles : EsEvent(h)
    \/ \E h \in Handles : EsClose(h)
    \/ \E h \in Handles : EsFail(h)
    \/ \E h \in Handles : EsCancel(h)

SpecReader == InitReader /\ [][NextReader]_vars

----------------------------------------------------------------------------
(* send (store.js:167-215)                                                  *)

\* An input text: the characters it starts with and the number of further
\* characters that follow them (a message keeps the first as its text).
Str(head, fill) == [head |-> head, fill |-> fill]

\* input.length
Length(in) == Len(in.head) + in.fill

\* !input || !input.trim()
IsBlank(in) == in.fill = 0 /\ \A i \in 1..Len(in.head) : in.head[i] = " "

Inputs ==
    {Str(<<>>, 0), Str(<<" ">>, 0), Str(<<"h", "i">>, 0),
     Str(<<"h">>, MAX_INPUT_CHARS - 1), Str(<<"h">>, MAX_INPUT_CHARS)}

\* a Quota Guard that lets the text pass at any length
InputTooLong_Never(in) == FALSE

\* store.js:169: input.length > QUOTA.MAX_INPUT_CHARS
InputTooLong(in) == Length(in) > MAX_INPUT_CHARS

\* store.js:171-172: curCount >= QUOTA.MAX_MSG_PER_SESSION
ListFull(sid) == MsgCount(sid) >= MAX_MSG_PER_SESSION

\* [...(this.messages[sid] || []), m]
Appended(sid, ms) == (IF sid \in DOMAIN messages THEN messages[sid] ELSE <<>>) \o ms

Sent(sid, in, outcome, userId, aiId) ==
    [sid |-> sid, text |-> in.head, length |-> Length(in), outcome |-> outcome,
     userId |-> userId, aiId |-> aiId]

\* store.js:167-214, send up to its await (none in stream mode); the clock has
\* advanced by dt since it was last read, and by du between the two readings
\* that make the identifiers (store.js:176 and 195)
SendAt(in, dt, du) ==
    /\ run = Idle
    /\ Len(net) < MaxInflight
    /\ ops < MaxOps
    /\ ops' = ops + 1
    /\ LET sid == activeSessionId
           t == now + dt                      \* Date.now() of the user message
           u == t + du                        \* Date.now() of the assistant message
       IN IF IsBlank(in)
          THEN /\ sent' = Append(sent, Sent(sid, in, "blank", 0, 0))
               /\ UNCHANGED <<now, messages, net, strVars>>
          ELSE IF InputTooLong(in) \/ ListFull(sid)
          THEN /\ sent' = Append(sent, Sent(sid, in, "quota", 0, 0))
               /\ UNCHANGED <<now, messages, net, strVars>>
          ELSE IF ~useStream
          THEN /\ now' = t
               /\ messages' = setMessages(messages, sid,
                                  Appended(sid, <<UserMsg(t, in.head)>>))
               /\ net' = Append(net, Request("send", sid, in, NoCall))
               /\ sent' = Append(sent, Sent(sid, in, "posted", t, 0))
               /\ UNCHANGED strVars
          ELSE /\ now' = u
               /\ messages' = setMessages(messages, sid,
                                  Appended(sid, <<UserMsg(t, in.head), AiMsg(u + 1)>>))
               /\ streaming' = TRUE
               /\ streams' = Append(streams, NewStream("api", sid, u + 1, in.head, <<>>))
               /\ streamer' = Len(streams) + 1
               /\ sent' = Append(sent, Sent(sid, in, "streamed", t, u + 1))
               /\ net' = net
    /\ UNCHANGED <<models, cfgVars, sessions, activeSessionId, srvVars, run, done,
                   ensured, pane, authVars, calls>>

\* a send made when the clock has passed every identifier made so far
Send(in) == SendAt(in, 2, 0)

\* store.js:182-185, sendMessage resolved with the backend's answer message;
\* spreading a list that is gone throws into the catch of store.js:186
SendResolve(i) ==
    /\ run = Idle
    /\ i \in 1..Len(net)
    /\ net[i].kind = "send"
    /\ net[i].sid \notin srvGone
    /\ net[i].sid \in DOMAIN srvCfg
    /\ LET sid == net[i].sid
           stored == Persist(sid, net[i].body.head, <<"a">>)
           ans == stored[sid][Len(stored[sid])]
       IN /\ srvMsgs' = stored
          /\ messages' = IF sid \in DOMAIN messages
                         THEN setMessages(messages, sid, messages[sid] \o <<ans>>)
                         ELSE messages
    /\ net' = RemoveAt(net, i)
    /\ UNCHANGED <<models, restVars, cfgVars, sessions, activeSessionId, strVars, srvCfg,
                   srvGone, nextId, run, done, ensured, ops>>

\* store.js:186-188, sendMessage rejected: an alert, nothing else
SendReject(i) ==
    /\ run = Idle
    /\ i \in 1..Len(net)
    /\ net[i].kind = "send"
    /\ net' = RemoveAt(net, i)
    /\ UNCHANGED <<models, restVars, cfgVars, sessions, activeSessionId, messages, strVars,
                   srvVars, run, done, ensured, ops>>

----------------------------------------------------------------------------
(* The chat page in use: two sessions loaded, the first one active, its     *)
(* message fetch (store.js:56-58) still in flight or already answered.      *)

ChatCfg(i) == [InitCfg(i) EXCEPT !.stream = (i = 1)]

\* the answers of the backend: two tokens and the sentinel, or one token and
\* the close of the connection
AnswerFrames == {<<"a", "w", "done">>, <<"a">>}

\* what the user types
ChatInputs == {Str(<<"h", "i">>, 0)}

InitChat ==
    \E loaded \in BOOLEAN :
        /\ models = <<"m1", "m2">>
        /\ modelAlias = "m1"
        /\ useRag = FALSE
        /\ useStream = TRUE
        /\ ragCorpusIds = {}
        /\ sessions = [i \in 1..2 |-> SessionOf(i, ChatCfg(i))]
        /\ activeSessionId = 1
        /\ srvCfg = [i \in 1..2 |-> ChatCfg(i)]
        /\ srvMsgs = [i \in 1..2 |-> <<OldMsg(i)>>]
        /\ srvGone = {}
        /\ nextId = FirstNewId
        /\ messages = IF loaded THEN [i \in {1} |-> <<OldMsg(1)>>] ELSE <<>>
        /\ net = IF loaded THEN <<>> ELSE <<Request("listMessages", 1, NoBody, NoCall)>>
        /\ streaming = FALSE
        /\ streamer = NoHandle
        /\ streams = <<>>
        /\ run = Idle
        /\ done = NoDone
        /\ ensured = FALSE
        /\ ops = 0
        /\ now = Epoch
        /\ sent = <<>>
        /\ pane = NoPane
        /\ token = "t1"
        /\ hash = "#/chat"
        /\ calls = <<>>

\* the number of bytes up to the end of the first frame of a body
FrameEnd(body) ==
    LET ends == {i \in 2..Len(body) : body[i - 1] = NL /\ body[i] = NL}
    IN IF ends = {} THEN Len(body) ELSE CHOOSE i \in ends : \A j \in ends : i <= j

\* a read that returns one frame
ReadFrame(h) == ReadChunk(h, FrameEnd(streams[h].body))

NextChat ==
    \/ \E in \in ChatInputs : Send(in)
    \/ \E i \in Slots : SendResolve(i)
    \/ \E i \in Slots : SendReject(i)
    \/ \E id \in PickIds : SwitchSession(id)
    \/ \E i \in Slots : SwitchResolve(i, "items") /\ UNCHANGED calls
    \/ \E i \in Slots : SwitchReject(i) /\ UNCHANGED calls
    \/ \E id \in PickIds : DeleteSession(id)
    \/ \E i \in Slots : DeleteResolve(i) /\ UNCHANGED calls
    \/ \E h \in Handles, fs \in AnswerFrames : FetchResolve(h, 200, fs, FALSE)
    \/ \E h \in Handles : FetchReject(h)
    \/ \E h \in Handles : ReadFrame(h)
    \/ \E h \in Handles : ReadDone(h)

SpecChat == InitChat /\ [][NextChat]_vars

----------------------------------------------------------------------------
(* The composer in use on one session whose list is empty, one short of     *)
(* MAX_MSG_PER_SESSION, or full.                                            *)

InitLengths == {0, MAX_MSG_PER_SESSION - 1, MAX_MSG_PER_SESSION}

InitSend ==
    \E n \in InitLengths, s \in BOOLEAN :
        /\ models = <<"m1", "m2">>
        /\ modelAlias = "m1"
        /\ useRag = FALSE
        /\ useStream = s
        /\ ragCorpusIds = {}
        /\ sessions = <<SessionOf(1, [InitCfg(1) EXCEPT !.stream = s])>>
        /\ activeSessionId = 1
        /\ srvCfg = [i \in {1} |-> [InitCfg(1) EXCEPT !.stream = s]]
        /\ srvMsgs = [i \in {1} |-> [k \in 1..n |-> OldMsg(k)]]
        /\ srvGone = {}
        /\ nextId = FirstNewId
        /\ messages = [i \in {1} |-> [k \in 1..n |-> OldMsg(k)]]
        /\ net = <<>>
        /\ streaming = FALSE
        /\ streamer = NoHandle
        /\ streams = <<>>
        /\ run = Idle
        /\ done = NoDone
        /\ ensured = FALSE
        /\ ops = 0
        /\ now = Epoch
        /\ sent = <<>>
        /\ pane = NoPane
        /\ token = "t1"
        /\ hash = "#/chat"
        /\ calls = <<>>

NextSend ==
    \/ \E in \in Inputs : Send(in)
    \/ \E i \in Slots : SendResolve(i)
    \/ \E i \in Slots : SendReject(i)
    \/ \E h \in Handles : FetchResolve(h, 200, <<"a">>, FALSE)
    \/ \E h \in Handles : ReadFrame(h)
    \/ \E h \in Handles : ReadDone(h)

SpecSend == InitSend /\ [][NextSend]_vars

----------------------------------------------------------------------------
(* send with the clock as it is: Date.now() counts milliseconds, so two     *)
(* readings may give the same value or consecutive ones.                    *)

MaxTick == 2
Ticks == 0..MaxTick          \* milliseconds between two sends
Gaps == 0..1                 \* milliseconds between the two readings of one send

InitClock ==
    \E s \in BOOLEAN :
        /\ models = <<"m1", "m2">>
        /\ modelAlias = "m1"
        /\ useRag = FALSE
        /\ useStream = s
        /\ ragCorpusIds = {}
        /\ sessions = <<SessionOf(1, [InitCfg(1) EXCEPT !.stream = s])>>
        /\ activeSessionId = 1
        /\ srvCfg = [i \in {1} |-> [InitCfg(1) EXCEPT !.stream = s]]
        /\ srvMsgs = [i \in {1} |-> <<OldMsg(1)>>]
        /\ srvGone = {}
        /\ nextId = FirstNewId
        /\ messages = [i \in {1} |-> <<OldMsg(1)>>]
        /\ net = <<>>
        /\ streaming = FALSE
        /\ streamer = NoHandle
        /\ streams = <<>>
        /\ run = Idle
        /\ done = NoDone
        /\ ensured = FALSE
        /\ ops = 0
        /\ now = Epoch
        /\ sent = <<>>
        /\ pane = NoPane
        /\ token = "t1"
        /\ hash = "#/chat"
        /\ calls = <<>>

NextClock ==
    \/ \E in \in ChatInputs, dt \in Ticks, du \in Gaps : SendAt(in, dt, du)
    \/ \E i \in Slots : SendResolve(i)
    \/ \E i \in Slots : SendReject(i)
    \/ \E h \in Handles : FetchResolve(h, 200, <<"a">>, FALSE)
    \/ \E h \in Handles : FetchReject(h)
    \/ \E h \in Handles : ReadFrame(h)
    \/ \E h \in Handles : ReadDone(h)

SpecClock == InitClock /\ [][NextClock]_vars

----------------------------------------------------------------------------
(* ChatPane (components/ChatPane.js): its own session list, active session  *)
(* and message cache, over the functions of api/chat.js                     *)

\* ChatPane.js:70-74: what the pane keeps of a message
PaneMsg(m) == [role |-> m.role, content |-> m.content_text]

PaneIds == {pane.sessions[i] : i \in 1..Len(pane.sessions)}

PanePickIds ==
    {pane.sessions[i] :
        i \in 1..(IF Len(pane.sessions) < MaxPick THEN Len(pane.sessions) ELSE MaxPick)}

\* ChatPane.js:125-129, selectSessionById up to the await of refreshMessages
Selected(p, sid) ==
    [p EXCEPT !.activeSid = sid,
              !.msgsBySid = IF sid \in DOMAIN p.msgsBySid THEN p.msgsBySid
                            ELSE setMessages(p.msgsBySid, sid, <<>>)]

\* ChatPane.js:132-134, onSelectSession
PaneSelect(sid) ==
    /\ run = Idle
    /\ Len(net) < MaxInflight
    /\ ops < MaxOps
    /\ ops' = ops + 1
    /\ pane' = Selected(pane, sid)
    /\ net' = Append(net, Request("paneList", sid, NoBody, NoCall))
    /\ UNCHANGED <<models, cfgVars, sessions, activeSessionId, messages, strVars,
                   srvVars, run, done, ensured, sendVars, authVars, calls>>

\* ChatPane.js:69: Array.isArray(res) ? res : (res?.items || res?.messages || [])
PaneItems(data) == data.list

\* the entry a finished call leaves in the log
Call(op, sid, outcome, cached) ==
    [op |-> op, sid |-> sid, outcome |-> outcome, cached |-> cached]

\* ChatPane.js:66-74, listMessages resolved
PaneRefreshResolve(i, shape) ==
    /\ run = Idle
    /\ i \in 1..Len(net)
    /\ net[i].kind = "paneList"
    /\ net[i].sid \notin srvGone
    /\ LET sid == net[i].sid
           data == [shape |-> shape, list |-> SrvMsgsOf(sid)]
           items == PaneItems(data)
       IN /\ pane' = [pane EXCEPT !.msgsBySid =
                         setMessages(@, sid, [k \in 1..Len(items) |-> PaneMsg(items[k])])]
          /\ calls' = Append(calls, Call("paneRefresh", sid, "ok", FALSE))
    /\ net' = RemoveAt(net, i)
    /\ UNCHANGED <<models, cfgVars, sessions, activeSessionId, messages, strVars,
                   srvVars, run, done, ensured, ops, sendVars, authVars>>

\* ChatPane.js:75-77, listMessages rejected
PaneRefreshReject(i) ==
    /\ run = Idle
    /\ i \in 1..Len(net)
    /\ net[i].kind = "paneList"
    /\ LET sid == net[i].sid
           cached == sid \in DOMAIN pane.msgsBySid /\ pane.msgsBySid[sid] # <<>>
       IN /\ pane' = [pane EXCEPT !.msgsBySid =
                         setMessages(@, sid, Kept(@, sid))]
          /\ calls' = Append(calls, Call("paneRefresh", sid, "failed", cached))
    /\ net' = RemoveAt(net, i)
    /\ UNCHANGED <<models, cfgVars, sessions, activeSessionId, messages, strVars,
                   srvVars, run, done, ensured, ops, sendVars, authVars>>

\* ChatPane.js:102-108, onDeleteSession confirmed, up to the await of deleteSession
PaneDelete(sid) ==
    /\ run = Idle
    /\ Len(net) < MaxInflight
    /\ ops < MaxOps
    /\ ops' = ops + 1
    /\ net' = Append(net, Request("paneDelete", sid, NoBody, NoCall))
    /\ UNCHANGED <<models, cfgVars, sessions, activeSessionId, messages, strVars,
                   srvVars, run, done, ensured, sendVars, pane, authVars, calls>>

\* ChatPane.js:109-118, deleteSession resolved
PaneDeleteResolve(i) ==
    /\ run = Idle
    /\ i \in 1..Len(net)
    /\ net[i].kind = "paneDelete"
    /\ LET sid == net[i].sid
           rest == SelectSeq(pane.sessions, LAMBDA s : s # sid)
           cut == [pane EXCEPT !.sessions = rest,
                               !.msgsBySid = deleteMessages(@, sid)]
           next == IF pane.activeSid # sid THEN cut
                   ELSE IF rest = <<>> THEN [cut EXCEPT !.activeSid = NoSession]
                   ELSE Selected(cut, rest[1])
           reqs == IF pane.activeSid = sid /\ rest # <<>>
                   THEN <<Request("paneList", rest[1], NoBody, NoCall)>> ELSE <<>>
       IN /\ pane' = next
          /\ net' = RemoveAt(net, i) \o reqs
          /\ srvGone' = srvGone \cup {sid}
          /\ calls' = Append(calls, Call("paneDelete", sid, "ok", FALSE))
    /\ UNCHANGED <<models, cfgVars, sessions, activeSessionId, messages, strVars,
                   srvCfg, srvMsgs, nextId, run, done, ensured, ops, sendVars, authVars>>

\* ChatPane.js:119-122, deleteSession rejected: a message, nothing removed
PaneDeleteReject(i) ==
    /\ run = Idle
    /\ i \in 1..Len(net)
    /\ net[i].kind = "paneDelete"
    /\ net' = RemoveAt(net, i)
    /\ calls' = Append(calls, Call("paneDelete", net[i].sid, "failed", FALSE))
    /\ UNCHANGED <<models, cfgVars, sessions, activeSessionId, messages, strVars,
                   srvVars, run, done, ensured, ops, sendVars, pane, authVars>>

----------------------------------------------------------------------------
(* The two session lists in use: the sidebar of the store and ChatPane,     *)
(* each with three sessions loaded and the first one open.                  *)

Cached(sid) == sid \in DOMAIN messages /\ messages[sid] # <<>>

\* the sessions opened before: the open one, and perhaps the second
Visited == {{1}, {1, 2}}

InitPane ==
    /\ models = <<"m1", "m2">>
    /\ modelAlias = "m1"
    /\ useRag = FALSE
    /\ useStream = TRUE
    /\ ragCorpusIds = {}
    /\ sessions = [i \in 1..3 |-> SessionOf(i, InitCfg(i))]
    /\ activeSessionId = 1
    /\ srvCfg = [i \in 1..3 |-> InitCfg(i)]
    /\ srvMsgs = [i \in 1..2 |-> <<OldMsg(i)>>]
    /\ srvGone = {}
    /\ nextId = FirstNewId
    /\ \E seen \in Visited :
          /\ messages = [i \in seen |-> <<OldMsg(i)>>]
          /\ pane = [sessions |-> <<1, 2, 3>>, activeSid |-> 1,
                     msgsBySid |-> [i \in seen |-> <<PaneMsg(OldMsg(i))>>]]
    /\ net = <<>>
    /\ streaming = FALSE
    /\ streamer = NoHandle
    /\ streams = <<>>
    /\ run = Idle
    /\ done = NoDone
    /\ ensured = FALSE
    /\ ops = 0
    /\ now = Epoch
    /\ sent = <<>>
    /\ token = "t1"
    /\ hash = "#/chat"
    /\ calls = <<>>

NextPane ==
    \/ \E id \in PickIds : SwitchSession(id)
    \/ \E i \in Slots, shape \in {"items", "array"} :
          /\ SwitchResolve(i, shape)
          /\ calls' = Append(calls, Call("switch", net[i].sid, "ok", Cached(net[i].sid)))
    \/ \E i \in Slots :
          /\ SwitchReject(i)
          /\ calls' = Append(calls, Call("switch", net[i].sid, "failed", Cached(net[i].sid)))
    \/ \E id \in PickIds : DeleteSession(id)
    \/ \E i \in Slots :
          /\ DeleteResolve(i)
          /\ calls' = Append(calls, Call("delete", net[i].sid, "ok", FALSE))
    \/ \E i \in Slots :
          /\ DeleteReject(i)
          /\ calls' = Append(calls, Call("delete", net[i].sid, "failed", FALSE))
    \/ \E sid \in PanePickIds : PaneSelect(sid)
    \/ \E i \in Slots, shape \in {"items", "array"} : PaneRefreshResolve(i, shape)
    \/ \E i \in Slots : PaneRefreshReject(i)
    \/ \E sid \in PanePickIds : PaneDelete(sid)
    \/ \E i \in Slots : PaneDeleteResolve(i)
    \/ \E i \in Slots : PaneDeleteReject(i)

SpecPane == InitPane /\ [][NextPane]_vars

----------------------------------------------------------------------------
(* The two HTTP clients, api.js and api/http.js, with their interceptors    *)

NoToken == ""                     \* localStorage holds no 'token'
LoginView == "#/login"
Views == {"#/chat", LoginView}
Credentials == {"t1", "t2"}
Wrappers == {"api", "http"}
HttpStatuses == {NoStatus, 200, 401, 500}

\* api.js:9-13 and api/http.js:14-18: the Authorization header, if any
BearerOf(t) == IF t # NoToken THEN Some(t) ELSE None

\* a call through one of the clients, up to its await
HttpRequest(w) ==
    /\ run = Idle
    /\ Len(net) < MaxInflight
    /\ ops < MaxOps
    /\ ops' = ops + 1
    /\ net' = Append(net, [kind |-> w, bearer |-> BearerOf(token)])
    /\ UNCHANGED <<models, cfgVars, sessions, activeSessionId, messages, strVars,
                   srvVars, run, done, ensured, sendVars, pane, authVars, calls>>

\* api.js:17-23, the error handler of the response interceptor
ApiOnError(status) ==
    [token |-> IF status = 401 THEN NoToken ELSE token,
     hash |-> IF status = 401 THEN LoginView ELSE hash]

\* api/http.js:21-27, the error handler of the response interceptor
HttpOnError(status) ==
    [token |-> token,
     hash |-> IF status = 401 THEN LoginView ELSE hash]

OnError(w, status) == IF w = "api" THEN ApiOnError(status) ELSE HttpOnError(status)

\* the entry a settled call leaves in the log
Reply(w, status, outcome) == [op |-> w, status |-> status, outcome |-> outcome]

\* the response, or the loss of the connection (NoStatus), reaches the client:
\* a 2xx status goes through (res) => res, anything else through the error
\* handler, which returns Promise.reject(err)
HttpResponse(i, status) ==
    /\ run = Idle
    /\ i \in 1..Len(net)
    /\ net[i].kind \in Wrappers
    /\ IF ResOk(status)
       THEN /\ UNCHANGED authVars
            /\ calls' = Append(calls, Reply(net[i].kind, status, "resolved"))
       ELSE /\ token' = OnError(net[i].kind, status).token
            /\ hash' = OnError(net[i].kind, status).hash
            /\ calls' = Append(calls, Reply(net[i].kind, status, "rejected"))
    /\ net' = RemoveAt(net, i)
    /\ UNCHANGED <<models, cfgVars, sessions, activeSessionId, messages, strVars,
                   srvVars, run, done, ensured, ops, sendVars, pane>>

\* store.js:42, setToken after a login
SetToken(t) ==
    /\ run = Idle
    /\ token' = t
    /\ UNCHANGED <<models, cfgVars, sessions, activeSessionId, messages, strVars,
                   srvVars, net, run, done, ensured, ops, sendVars, pane, hash, calls>>

\* store.js:43, logout
Logout ==
    /\ run = Idle
    /\ token' = NoToken
    /\ hash' = LoginView
    /\ UNCHANGED <<models, cfgVars, sessions, activeSessionId, messages, strVars,
                   srvVars, net, run, done, ensured, ops, sendVars, pane, calls>>

\* the user opens another view
Navigate(v) ==
    /\ run = Idle
    /\ hash' = v
    /\ UNCHANGED <<models, cfgVars, sessions, activeSessionId, messages, strVars,
                   srvVars, net, run, done, ensured, ops, sendVars, pane, token, calls>>

\* store.js:7: token: localStorage.getItem('token') || ''
InitHttp ==
    /\ models = <<"m1", "m2">>
    /\ modelAlias = "m1"
    /\ useRag = FALSE
    /\ useStream = TRUE
    /\ ragCorpusIds = {}
    /\ sessions = <<>>
    /\ activeSessionId = NoSession
    /\ srvCfg = <<>>
    /\ srvMsgs = <<>>
    /\ srvGone = {}
    /\ nextId = FirstNewId
    /\ messages = <<>>
    /\ net = <<>>
    /\ streaming = FALSE
    /\ streamer = NoHandle
    /\ streams = <<>>
    /\ run = Idle
    /\ done = NoDone
    /\ ensured = FALSE
    /\ ops = 0
    /\ now = Epoch
    /\ sent = <<>>
    /\ pane = NoPane
    /\ token \in {NoToken} \cup Credentials
    /\ hash = IF token = NoToken THEN LoginView ELSE "#/chat"
    /\ calls = <<>>

NextHttp ==
    \/ \E w \in Wrappers : HttpRequest(w)
    \/ \E i \in Slots, status \in HttpStatuses : HttpResponse(i, status)
    \/ \E t \in Credentials : SetToken(t)
    \/ Logout
    \/ \E v \in Views : Navigate(v)

SpecHttp == InitHttp /\ [][NextHttp]_vars

----------------------------------------------------------------------------
(* Properties of ensureActiveSession.  `done` holds, in the state right    *)
(* after a call finished, what the call was started on and what it left.   *)

Completed == done.outcome # "none"

\* C1, as stated: a call made while the active session has one message or
\* more ends with a newly created session active, its id different from the
\* id active before.
C1_AlwaysNewSession ==
    (Completed /\ done.call.hadMsg) =>
        /\ done.outcome = "created"
        /\ done.active = done.newId
        /\ done.newId # done.call.prevActive

\* C1, amended: such a call never patches; it goes straight to the creation
\* branch.  When the branch creates (quota not reached, an alias at hand,
\* createSession resolved) the created session is at the head of the list,
\* is the active one and differs from the one active before; the branch is
\* refused as "quota" only with MAX_SESSIONS or more sessions held; otherwise
\* no alias was at hand or the error of createSession reached the caller.
C1_NewSessionUnlessRefused ==
    (Completed /\ done.call.hadMsg) =>
        /\ ~done.call.viaPatch
        /\ done.outcome \in {"created", "quota", "noalias", "error"}
        /\ done.outcome = "created" =>
              /\ done.active = done.newId
              /\ done.headId = done.newId
              /\ done.newId # done.call.prevActive
              /\ done.call.startLen < MAX_SESSIONS
        /\ done.outcome = "quota" => done.call.startLen >= MAX_SESSIONS
        /\ done.outcome # "created" => done.nSessions = done.lenBefore

C1_Witness == done.outcome = "created" /\ done.call.hadMsg

C3_FirstCallCreatesOne ==
    (Completed /\ done.call.first /\ done.call.startLen = 0) =>
        /\ done.outcome = "created"
        /\ done.call.creates = 1
        /\ done.nSessions = 1
        /\ done.active = done.newId

\* C3, amended: from an empty session set the first call goes to the creation
\* branch without a patch and issues at most one createSession call: none
\* when no model alias is at hand, one otherwise.  When that call resolves,
\* exactly one session is added, at the head of the list, and it is the
\* active one (the list may already hold the session of a call that started
\* later and finished earlier); when it is rejected nothing is added.
C3_FirstCallCreatesAtMostOne ==
    (Completed /\ done.call.first /\ done.call.startLen = 0) =>
        /\ ~done.call.viaPatch
        /\ done.outcome \in {"created", "noalias", "error"}
        /\ done.call.creates = (IF done.outcome = "noalias" THEN 0 ELSE 1)
        /\ done.outcome = "created" =>
              /\ done.nSessions = done.lenBefore + 1
              /\ done.headId = done.newId
              /\ done.active = done.newId
              /\ done.activeCfg = done.updated
        /\ done.outcome # "created" => done.nSessions = done.lenBefore

C3_Witness ==
    /\ done.call.first
    /\ done.call.startLen = 0
    /\ done.outcome = "created"
    /\ done.nSessions = 1

\* C4: with MAX_SESSIONS sessions (or more) in the list, the creation branch
\* ends as QuotaExceeded, puts no request on the network and leaves sessions,
\* activeSessionId and the message lists as they were.
C4_QuotaRejectsLocally ==
    [][(run.pc = "create" /\ Len(sessions) >= MAX_SESSIONS) =>
          /\ done'.outcome = "quota"
          /\ net' = net
          /\ sessions' = sessions
          /\ activeSessionId' = activeSessionId
          /\ messages' = messages]_vars

C4_Witness == done.outcome = "quota" /\ done.nSessions = MAX_SESSIONS

\* C5: after every finished call the configuration snapshot equals the
\* configuration of the session activeSessionId names.
C5_SnapshotIsActiveConfig ==
    (Completed /\ done.active # NoSession) => done.snap = done.activeCfg

\* C6: no patchSession request is ever in flight for a session that holds a
\* message, in the local cache or on the backend.
C6_PatchOnlyEmptySession ==
    \A i \in 1..Len(net) :
        net[i].kind = "patch" =>
            /\ MsgCount(net[i].sid) = 0
            /\ SrvMsgsOf(net[i].sid) = <<>>

----------------------------------------------------------------------------
(* Properties of the stream readers, checked under SpecReader.              *)

Count(cb, k) == Cardinality({i \in 1..Len(cb) : cb[i].k = k})

\* the payloads of the token callbacks, in the order of the calls
RECURSIVE Tokens(_)
Tokens(cb) ==
    IF cb = <<>> THEN <<>>
    ELSE (IF Head(cb).k = "tok" THEN <<Head(cb).v>> ELSE <<>>) \o Tokens(Tail(cb))

\* the payloads of the frames before the first sentinel frame, in body order
RECURSIVE PayloadsBeforeDone(_)
PayloadsBeforeDone(frames) ==
    IF frames = <<>> \/ Head(frames) = "done" THEN <<>>
    ELSE (IF HasPayload(Head(frames)) THEN <<Payload(Head(frames))>> ELSE <<>>)
         \o PayloadsBeforeDone(Tail(frames))

IsPrefix(s, t) == Len(s) <= Len(t) /\ SubSeq(t, 1, Len(s)) = s

\* the stream ended normally: the sentinel arrived or the connection closed
\* after the last frame, and the caller did not cancel
EndedNormally(st) ==
    st.phase = "closed" /\ ~st.aborted /\ st.over \in {"sentinel", "close"}

\* the transport failed: a status that is not a success, a rejected fetch or
\* read, an aborted connection
TransportFailed(st) ==
    \/ st.over = "failed"
    \/ st.status # NoStatus /\ ~(st.status >= 200 /\ st.status <= 299)

\* C7 (as stated): once the handle's cancel has been called the stream invokes
\* no callback any more and stays cancelled whatever is called on it, and a
\* step that cancels the store's stream (stopStream) leaves streaming = false
\* and streamer = null.
C7_NoCallbackAfterCancel ==
    [][/\ \A h \in Handles :
            streams[h].aborted =>
                streams'[h].aborted /\ streams'[h].cb = streams[h].cb
       /\ (\E h \in Handles : h = streamer /\ ~streams[h].aborted /\ streams'[h].aborted)
              => ~streaming' /\ streamer' = NoHandle]_vars

\* C8 (as stated): every stream that ended normally, by the sentinel frame or
\* by the connection closing, has had its end callback invoked exactly once,
\* and no token callback after it.
C8_EndOnceOnNormalEnd ==
    \A h \in Handles :
        EndedNormally(streams[h]) =>
            /\ Count(streams[h].cb, "end") = 1
            /\ \A i, j \in 1..Len(streams[h].cb) :
                   streams[h].cb[i].k = "end" /\ streams[h].cb[j].k = "tok" => j < i

\* C9: a stream whose transport failed has had its error callback invoked
\* exactly once and its end callback never; and every stream, at every moment,
\* has had at most one call of end or error in all.
C9_ErrorOnceNeverEnd ==
    \A h \in Handles :
        /\ Count(streams[h].cb, "end") + Count(streams[h].cb, "err") <= 1
        /\ TransportFailed(streams[h]) =>
               Count(streams[h].cb, "err") = 1 /\ Count(streams[h].cb, "end") = 0

\* a response with a status that is not a success has been answered by the one
\* error callback, and a read that failed after a token as well
C9_Witness ==
    \E h \in Handles :
        /\ streams[h].kind = "api"
        /\ streams[h].over = "failed"
        /\ streams[h].status = 200
        /\ Count(streams[h].cb, "tok") >= 1
        /\ Count(streams[h].cb, "err") = 1

\* C10: of a response body of blank-line-terminated frames read by
\* api.streamMessage, the tokens delivered are at every moment a prefix of the
\* payloads of the frames before the first sentinel frame, in body order; and
\* when the stream has ended normally the callbacks are exactly those tokens
\* followed by one end callback, with no error callback and no token for a
\* trailing frame that has no terminator.
C10_TokensArePayloadsThenEnd ==
    \A h \in Handles :
        streams[h].kind = "api" =>
            /\ IsPrefix(Tokens(streams[h].cb), PayloadsBeforeDone(streams[h].frames))
            /\ EndedNormally(streams[h]) =>
                   streams[h].cb =
                       [i \in 1..Len(PayloadsBeforeDone(streams[h].frames)) |->
                           Tok(PayloadsBeforeDone(streams[h].frames)[i])] \o <<End>>

\* a body of two data frames and an unterminated third, read to the close of
\* the connection: two tokens and the end
C10_Witness ==
    \E h \in Handles :
        /\ streams[h].kind = "api"
        /\ EndedNormally(streams[h])
        /\ streams[h].over = "close"
        /\ streams[h].partial
        /\ Len(Tokens(streams[h].cb)) = MaxFrames
        /\ <<WideChar>> \in {streams[h].cb[i].v : i \in 1..Len(streams[h].cb)}

\* the callbacks of a reader that gets the given bytes in one single read
Unsplit(bytes) ==
    LET parts == Split(DecodeFrom(<<>>, bytes).text, Separator)
    IN FrameCallbacks(SubSeq(parts, 1, Len(parts) - 1))

\* the bytes of the body of st that its reads have returned so far
Consumed(st) ==
    SubSeq(BodyOf(st.frames, st.partial), 1,
           Len(BodyOf(st.frames, st.partial)) - Len(st.body))

\* C11: whatever the chunks the reads of api.streamMessage returned, the token
\* callbacks made so far are those of one read of the same bytes; so a frame
\* cut anywhere (in the prefix, in the payload, inside a character, between
\* the two newlines of its terminator) gives the token of the unsplit frame.
C11_TokensIndependentOfChunks ==
    \A h \in Handles :
        (streams[h].kind = "api" /\ streams[h].status = 200) =>
            Tokens(streams[h].cb) = Tokens(Unsplit(Consumed(streams[h])))

\* a body of two frames read to its end, the last cut made between the two
\* newlines of a terminator, and both tokens delivered
C11_Witness ==
    \E h \in Handles :
        /\ streams[h].kind = "api"
        /\ streams[h].cut = "terminator"
        /\ streams[h].frames = <<"w", "a">>
        /\ streams[h].body = <<>>
        /\ Tokens(streams[h].cb) = <<<<WideChar>>, <<"a">>>>

----------------------------------------------------------------------------
(* Properties of send and of the token callback, checked under SpecChat.    *)

SessionIds == {sessions[i].id : i \in 1..Len(sessions)}

\* the entries of the session's list that carry the id
WithId(sid, id) ==
    IF sid \in DOMAIN messages
    THEN {i \in 1..Len(messages[sid]) : messages[sid][i].id = id}
    ELSE {}

\* C12 (as stated): for every stream of a session that is not deleted, once
\* tokens t1..tn have been delivered for its assistant message id the session's
\* list holds exactly one message with that id, and its content is t1 + ... +
\* tn in the order of delivery.
C12_TokensAccumulateById ==
    \A h \in Handles :
        (/\ streams[h].kind = "api"
         /\ streams[h].sid \in SessionIds
         /\ Tokens(streams[h].cb) # <<>>) =>
            /\ Cardinality(WithId(streams[h].sid, streams[h].aiMsgId)) = 1
            /\ \A i \in WithId(streams[h].sid, streams[h].aiMsgId) :
                   messages[streams[h].sid][i].content_text =
                       Concat(Tokens(streams[h].cb))

\* C13 (as stated): a step that delivers tokens for an assistant message id
\* which the session's list does not hold leaves the list with an entry of
\* that id whose content is the text delivered.
C13_MissingEntryInserted ==
    [][\A h \in Handles :
          LET st == streams[h]
              new == Tokens(SubSeq(streams'[h].cb, Len(st.cb) + 1, Len(streams'[h].cb)))
          IN (/\ st.kind = "api"
              /\ new # <<>>
              /\ st.sid \in DOMAIN messages
              /\ FindIndex(messages[st.sid], st.aiMsgId) = 0) =>
                 /\ st.sid \in DOMAIN messages'
                 /\ FindIndex(messages'[st.sid], st.aiMsgId) > 0
                 /\ messages'[st.sid][FindIndex(messages'[st.sid], st.aiMsgId)].content_text
                        = Concat(new)]_vars

\* the tokens delivered so far to the stream a send opened
Delivered(aiId) ==
    LET hs == {h \in Handles : streams[h].kind = "api" /\ streams[h].aiMsgId = aiId}
    IN IF hs = {} THEN <<>> ELSE Concat(Tokens(streams[CHOOSE h \in hs : TRUE].cb))

\* C19 (as stated): under every interleaving, for every send that was accepted
\* on a session that is not deleted, the session's list still holds the user
\* message the send appended and, for a streamed send, after it an assistant
\* message whose content begins with every token delivered so far.
C19_NoLostUpdate ==
    \A k \in 1..Len(sent) :
        (sent[k].outcome \in {"posted", "streamed"} /\ sent[k].sid \in SessionIds) =>
            /\ sent[k].sid \in DOMAIN messages
            /\ \E i \in 1..Len(messages[sent[k].sid]) :
                  /\ messages[sent[k].sid][i].role = "user"
                  /\ messages[sent[k].sid][i].content_text = sent[k].text
                  /\ sent[k].outcome = "streamed" =>
                        \E j \in (i + 1)..Len(messages[sent[k].sid]) :
                            /\ messages[sent[k].sid][j].role = "assistant"
                            /\ IsPrefix(Delivered(sent[k].aiId),
                                        messages[sent[k].sid][j].content_text)

\* C17: a call of send with an input of more than MAX_INPUT_CHARS characters,
\* or on an active session whose list holds MAX_MSG_PER_SESSION messages or
\* more, puts no request on the network, opens no stream, and leaves the
\* message lists, the streaming flag and the stream handle as they were.
C17_QuotaRejectsSend ==
    [][(/\ Len(sent') = Len(sent) + 1
        /\ \/ sent'[Len(sent')].length > MAX_INPUT_CHARS
           \/ MsgCount(sent'[Len(sent')].sid) >= MAX_MSG_PER_SESSION) =>
          /\ net' = net
          /\ streams' = streams
          /\ messages' = messages
          /\ streaming' = streaming
          /\ streamer' = streamer]_vars

\* a send was accepted on a list one short of the limit, and the next one,
\* of legal length, was rejected on the list that had become full
C17_Witness ==
    \E k, l \in 1..Len(sent) :
        /\ k < l
        /\ sent[k].outcome \in {"posted", "streamed"}
        /\ sent[l].outcome = "quota"
        /\ sent[l].length <= MAX_INPUT_CHARS
        /\ MsgCount(sent[l].sid) >= MAX_MSG_PER_SESSION

\* the call that this step finishes, if it finishes one
Finishing == Len(calls') = Len(calls) + 1

Last == calls'[Len(calls')]

PaneCached(sid) == sid \in DOMAIN pane.msgsBySid /\ pane.msgsBySid[sid] # <<>>

\* C14 (as stated): a step that completes a deletion, of the store or of
\* ChatPane, whether the remote call succeeded or failed, leaves the session
\* out of the local session list and leaves no message list for its id.
C14_DeleteRemovesLocally ==
    [][Finishing =>
          /\ Last.op = "delete" =>
                /\ Last.sid \notin SessionIds'
                /\ Last.sid \notin DOMAIN messages'
          /\ Last.op = "paneDelete" =>
                /\ Last.sid \notin PaneIds'
                /\ Last.sid \notin DOMAIN pane'.msgsBySid]_vars

C16_CacheIsBackendList ==
    [][(Finishing /\ Last.op = "switch" /\ Last.outcome = "ok") =>
          /\ Last.sid \in DOMAIN messages'
          /\ messages'[Last.sid] = SrvMsgsOf(Last.sid)]_vars

\* C20 (as stated): the step that completes the deletion of the active
\* session while other sessions remain makes the first remaining session
\* active and issues the fetch of its message list, whose completion sets the
\* configuration snapshot.
C20_DeleteSwitchesFully ==
    [][(/\ Finishing
        /\ Last.op = "delete"
        /\ activeSessionId = Last.sid
        /\ FilterOut(sessions, Last.sid) # <<>>) =>
          /\ activeSessionId' = FilterOut(sessions, Last.sid)[1].id
          /\ \E j \in 1..Len(net') :
                /\ net'[j].kind = "listMessages"
                /\ net'[j].sid = activeSessionId']_vars

\* C18 (as stated): the step in which a response with status 401 reaches
\* either HTTP client leaves local storage without a token and the location
\* at the login view, and the call is rejected.
C18_UnauthorizedClearsToken ==
    [][(Finishing /\ Last.op \in Wrappers /\ Last.status = 401) =>
          /\ token' = NoToken
          /\ hash' = LoginView
          /\ Last.outcome = "rejected"]_vars

----------------------------------------------------------------------------
(* Properties of overlapping calls.                                         *)

\* C21 (as stated): the local session list, which starts with at most
\* MAX_SESSIONS sessions, never holds more than MAX_SESSIONS sessions,
\* whatever ensureActiveSession calls are made and however they overlap.
C21_SessionsWithinQuota == Len(sessions) <= MAX_SESSIONS

\* C22 (as stated): while the stream that send started last has neither
\* ended, failed nor been stopped, the streaming flag is set and the handle
\* kept is that stream's, whatever the callbacks of earlier streams do.
C22_StreamingTracksLatest ==
    \A h \in Handles :
        (/\ h = Len(streams)
         /\ streams[h].kind = "api"
         /\ Active(h)
         /\ ~streams[h].aborted) =>
            /\ streaming
            /\ streamer = h

\* C23 (as stated): in every session's message list the identifiers are
\* pairwise distinct, whatever the clock values at which the sends were made,
\* so that a stream's tokens can only reach the assistant entry of its send.
C23_LocalIdsDistinct ==
    \A sid \in DOMAIN messages :
        \A i, j \in 1..Len(messages[sid]) :
            i # j => messages[sid][i].id # messages[sid][j].id

====
